---- MODULE Spec2Model ----
(***************************************************************************)
(* Multiplayer state-synchronisation core of cosmic-chaos (server.js).     *)
(*                                                                         *)
(* The server is single threaded: every handler (connection, message,      *)
(* close, error, the 100 ms syncGameState timer) runs to completion, so    *)
(* each handler is one action.  Date.now() is the variable now; it moves   *)
(* only between handlers.  socket.send() may throw for a transport; which  *)
(* transports throw during a handler is an input of that handler.          *)
(***************************************************************************)
EXTENDS Integers, Sequences, FiniteSets, TLC

(***************************************************************************)
(* Bounds                                                                  *)
(***************************************************************************)
NConn == 3          \* transports that ever connect, numbered in arrival order
MaxNow == 30001     \* largest clock reading explored
MaxLeftCount == 2   \* leftCount saturates here
ChatConns == 2      \* transports that connect in SpecChat
LiveConns == 2      \* transports that connect in SpecLive
TimedConns == 2     \* transports that connect in SpecPeriodic
MoveConns == 2      \* transports that connect in SpecMove
ColorConns == 1     \* transports open at a time in SpecColors
RelayConns == 2     \* transports that connect in SpecRelay
SnapConns == 2      \* transports that connect in SpecSnap
PoseConns == 1      \* transports that connect in SpecPose
TimerConns == 2     \* transports that connect in SpecTimers
SilentConns == 2    \* transports that connect in SpecSilent
AlienConns == 2     \* transports that connect in SpecAlien
IdleConns == 1      \* transports that connect in SpecIdle
GhostConns == 2     \* transports that connect in SpecGhost
MaxSockets == 4     \* WebSockets the client ever creates
MaxClicks == 1      \* clicks on the multiplayer button
MaxChecks == 1      \* times the connection check finds the server silent
MaxAssigned == 9    \* SpecColors: colors taken from the palette
ArriveUntil == 100  \* SpecPeriodic: transports connect up to this reading
MaxTimedNow == 30300  \* SpecPeriodic: largest clock reading explored

(***************************************************************************)
(* Program constants                                                       *)
(***************************************************************************)
SYNC_RATE == 100
timeout == 30000
MaxChatLen == 200
maxRetries == 5
playerColors ==
  <<"#FF4136", "#0074D9", "#2ECC40", "#FFDC00",
    "#B10DC9", "#FF851B", "#7FDBFF", "#F012BE">>
planets == <<"p1", "p2", "p3">>

(***************************************************************************)
(* Inputs                                                                  *)
(***************************************************************************)
Conns == 1..NConn
NoName == "?"                      \* no username in the upgrade URL
Usernames == {"alice"}             \* usernames a client may request
RandomIds == {"r1", "r2"}          \* strings Math.random() may produce
NoColor == "?"                     \* no color in the upgrade URL
Colors == {"#123456"}              \* colors a client may request
Delays == {timeout, timeout + 1}   \* time that passes between handlers

(***************************************************************************)
(* JavaScript values that arrive in frames.  Every value is a record with  *)
(* its typeof in t, so that values of different types can be told apart.   *)
(***************************************************************************)
Undefined == [t |-> "undefined"]   \* a property that was never assigned
Null == [t |-> "null"]
Num(n) == [t |-> "number", v |-> n]
NaN == [t |-> "number", nan |-> TRUE]
Str(s) == [t |-> "string", s |-> s]          \* a short string, as a whole
Text(chars) == [t |-> "string", chars |-> chars]  \* a string, per character
Vec(x, y, z) == [t |-> "object", x |-> x, y |-> y, z |-> z]

isNumber(v) == v.t = "number"                \* typeof v === 'number'
isNaN(v) == "nan" \in DOMAIN v
\* !!v
truthy(v) ==
  CASE v.t = "object" -> TRUE
    [] v.t = "number" -> ~isNaN(v) /\ v.v # 0
    [] v.t = "string" -> IF "chars" \in DOMAIN v THEN v.chars # <<>>
                         ELSE v.s # ""
    [] OTHER -> FALSE

Min(a, b) == IF a < b THEN a ELSE b

VARIABLES
  players,        \* the registry Map, in insertion order
  nextColorIndex, \* palette counter
  now,            \* Date.now()
  readyState,     \* ws.readyState of each transport
  playerId,       \* the playerId a transport's handlers closed over
  listeners,      \* message/close/error listeners installed on the transport
  pingInterval,   \* the transport's ping timer is active
  crashed,        \* an exception escaped the connection handler
  out,            \* frames passed to send() per transport by the last handler
  last,           \* which handler ran last, and on what
  gone,           \* how a transport's registry entry left the registry
  leftCount,      \* playerLeft frames carrying a departed session's id
  owed,           \* transports still to be sent a departed session's playerLeft
  sinceTick,      \* transports whose connect handler completed since a tick
  connectedAt,    \* clock reading when the transport connected
  pose,           \* the last updatePosition payload accepted from a transport
  assigned,       \* the colors the server took from the palette, in order
  multiplayer,    \* the client's gameState.multiplayer, sockets and timers
  did,            \* which client handler ran last, and on which socket
  counted,        \* retries a socket's handlers have counted
  scheduled       \* retries scheduled since the last open

vars == <<players, nextColorIndex, now, readyState, playerId, listeners,
          pingInterval, crashed, out, last, gone, leftCount, owed,
          sinceTick, connectedAt, pose, assigned, multiplayer, did,
          counted, scheduled>>

(***************************************************************************)
(* The registry: a JavaScript Map keeps insertion order; set() on an       *)
(* existing key replaces the value in place; delete() removes the entry.   *)
(***************************************************************************)
MapHas(P, id) == \E i \in 1..Len(P) : P[i].id = id
MapGet(P, id) == P[CHOOSE i \in 1..Len(P) : P[i].id = id]
MapSet(P, id, rec) ==
  IF MapHas(P, id)
  THEN [i \in 1..Len(P) |-> IF P[i].id = id THEN rec ELSE P[i]]
  ELSE Append(P, rec)
MapDelete(P, id) == SelectSeq(P, LAMBDA e : e.id # id)
Ids(P) == {P[i].id : i \in 1..Len(P)}
Sockets(P) == {P[i].socket : i \in 1..Len(P)}

\* transports send() is invoked on by a loop over the registry that
\* checks readyState === OPEN
OpenSockets(P, rs) == {c \in Sockets(P) : rs[c] = "OPEN"}

NoOut == [c \in Conns |-> <<>>]

(***************************************************************************)
(* Frames                                                                  *)
(***************************************************************************)
getPlayerDataForBroadcast(player) ==
  [id |-> player.id, position |-> player.position,
   rotation |-> player.rotation, color |-> player.color,
   isAlienMode |-> player.isAlienMode,
   landedPlanetId |-> player.landedPlanetId]

getPlayersData(P) == [i \in 1..Len(P) |-> getPlayerDataForBroadcast(P[i])]

InitFrame(id, color, P) ==
  [type |-> "init", playerId |-> id, playerColor |-> color,
   players |-> getPlayersData(P), planets |-> planets]

PlayerJoinedFrame(player) ==
  [type |-> "playerJoined", player |-> getPlayerDataForBroadcast(player)]

PlayerLeftFrame(id) == [type |-> "playerLeft", playerId |-> id]

\* the projection used for init and playerJoined
SnapshotEntry_full(player) == getPlayerDataForBroadcast(player)

\* the projection syncGameState builds for an entry
SnapshotEntry(player) ==
  [id |-> player.id, position |-> player.position,
   rotation |-> player.rotation, isAlienMode |-> player.isAlienMode,
   landedPlanetId |-> player.landedPlanetId]

GameStateFrame(P, t) ==
  [type |-> "gameState",
   players |-> [i \in 1..Len(P) |-> SnapshotEntry(P[i])],
   timestamp |-> t]

ChatFrame(id, color, message) ==
  [type |-> "chat", playerId |-> id, playerColor |-> color,
   message |-> message]

(***************************************************************************)
(* Sending.  o is the frames sent so far in this handler, rs the           *)
(* readyState of every transport while the handler runs, F the transports  *)
(* whose send() throws.  A frame counts as sent to a transport when send() *)
(* was invoked on it, whether or not the call threw.                       *)
(***************************************************************************)
SendTo(o, S, data) ==
  [c \in Conns |-> IF c \in S THEN Append(o[c], data) ELSE o[c]]

\* sendToPlayer: no try/catch, a throwing send escapes to the caller
sendToPlayer(o, rs, F, socket, data) ==
  [out |-> IF rs[socket] = "OPEN" THEN SendTo(o, {socket}, data) ELSE o,
   threw |-> rs[socket] = "OPEN" /\ socket \in F]

\* broadcastToOthers: no try/catch, the forEach stops at the first throw
broadcastToOthers(P, o, rs, F, excludePlayerId, data) ==
  LET elig == SelectSeq(P, LAMBDA e : e.id # excludePlayerId
                                      /\ rs[e.socket] = "OPEN")
      bad  == {i \in 1..Len(elig) : elig[i].socket \in F}
      stop == IF bad = {} THEN Len(elig)
              ELSE CHOOSE i \in bad : \A j \in bad : i <= j
  IN [out |-> SendTo(o, {elig[i].socket : i \in 1..stop}, data),
      threw |-> bad # {}]

\* broadcastToAll: every send has its own try/catch
broadcastToAll(P, o, rs, data) == SendTo(o, OpenSockets(P, rs), data)

Registered(c) == c \in Sockets(players)
Live(c) == readyState[c] = "OPEN" /\ listeners[c]

Init ==
  /\ players = <<>>
  /\ nextColorIndex = 0
  /\ now = 0
  /\ readyState = [c \in Conns |-> "CONNECTING"]
  /\ playerId = [c \in Conns |-> NoName]
  /\ listeners = [c \in Conns |-> FALSE]
  /\ pingInterval = [c \in Conns |-> FALSE]
  /\ crashed = FALSE
  /\ out = NoOut
  /\ last = [op |-> "start", conn |-> 0, threw |-> "no", evicted |-> {},
             before |-> {}, eligible |-> {}, fresh |-> {}]
  /\ gone = [c \in Conns |-> "no"]
  /\ leftCount = [k \in Conns |-> [r \in Conns |-> 0]]
  /\ owed = [k \in Conns |-> {}]
  /\ sinceTick = {}
  /\ connectedAt = [c \in Conns |-> 0]
  /\ pose = [c \in Conns |-> Undefined]
  /\ assigned = <<>>
  /\ multiplayer =
       [enabled |-> FALSE, socket |-> 0, connectionRetries |-> 0,
        retryDelay |-> 0,
        readyState |-> [s \in 1..MaxSockets |-> "NONE"],
        connectionTimeout |-> [s \in 1..MaxSockets |-> FALSE],
        failing |-> {},
        retryTimers |-> 0, reconnectTimers |-> 0, clicks |-> 0,
        checks |-> 0]
  /\ did = [op |-> "start", socket |-> 0]
  /\ counted = [s \in 1..MaxSockets |-> 0]
  /\ scheduled = 0

(***************************************************************************)
(* wss.on('connection'): transport ws arrives, already OPEN.               *)
(*                                                                         *)
(* sendToPlayer and broadcastToOthers have no try/catch, so a throwing     *)
(* send escapes the handler.  server.js installs no handler for uncaught   *)
(* exceptions: the process ends, and with it the registry, the timers and  *)
(* every transport.  No handler runs after that.                           *)
(***************************************************************************)
\* the palette counter after a color was taken from the palette
nextColorIndexAfter_skip(i) == (i + 2) % Len(playerColors)
nextColorIndexAfter(i) == (i + 1) % Len(playerColors)

\* moved on whether or not the URL had a color
nextColorIndexOn_always(color, i) == nextColorIndexAfter(i)
\* the palette counter after a connect: moved on only if the URL had no color
nextColorIndexOn(color, i) ==
  IF color # NoColor THEN i ELSE nextColorIndexAfter(i)

Connect(ws, username, color, rid, F) ==
  LET id == IF username # NoName THEN username ELSE rid
      playerColor == IF color # NoColor THEN color
                     ELSE playerColors[nextColorIndex + 1]
      rs == [readyState EXCEPT ![ws] = "OPEN"]
      playerData ==
        [id |-> id,
         position |-> Vec(Num(0), Num(100), Num(0)),
         rotation |-> Vec(Num(0), Num(0), Num(0)),
         color |-> playerColor,
         isAlienMode |-> FALSE,
         landedPlanetId |-> Undefined,
         lastUpdate |-> now,
         socket |-> ws,
         pingTime |-> 0,
         latency |-> Undefined]
      P == MapSet(players, id, playerData)
      s1 == sendToPlayer(NoOut, rs, F, ws, InitFrame(id, playerColor, P))
      s2 == broadcastToOthers(P, s1.out, rs, F, id,
                              PlayerJoinedFrame(playerData))
      threw == IF s1.threw THEN "init"
               ELSE IF s2.threw THEN "playerJoined" ELSE "no"
  IN /\ ~crashed
     /\ readyState[ws] = "CONNECTING"
     /\ \A d \in Conns : d < ws => readyState[d] # "CONNECTING"
     /\ F \subseteq {c \in Conns : rs[c] = "OPEN"}
     /\ playerId' = [playerId EXCEPT ![ws] = id]
     /\ nextColorIndex' = nextColorIndexOn(color, nextColorIndex)
     /\ out' = IF s1.threw THEN s1.out ELSE s2.out
     /\ crashed' = (threw # "no")
     /\ IF threw # "no"
        THEN /\ players' = <<>>
             /\ readyState' = [c \in Conns |->
                                 IF rs[c] = "CONNECTING" THEN "CONNECTING"
                                 ELSE "CLOSED"]
             /\ listeners' = [c \in Conns |-> FALSE]
             /\ pingInterval' = [c \in Conns |-> FALSE]
        ELSE /\ players' = P
             /\ readyState' = rs
             /\ listeners' = [listeners EXCEPT ![ws] = TRUE]
             /\ pingInterval' = [pingInterval EXCEPT ![ws] = TRUE]
     /\ last' = [op |-> "connect", conn |-> ws, threw |-> threw,
                 evicted |-> {}, before |-> Ids(players),
                 eligible |-> {c \in OpenSockets(P, rs) : c # ws},
                 fresh |-> {}, color |-> color]
     /\ UNCHANGED now

\* a transport that closed is garbage; the next transport to arrive takes
\* its place in the numbering
Recycle(ws) ==
  /\ ~crashed
  /\ readyState[ws] = "CLOSED"
  /\ ws \notin Sockets(players)
  /\ readyState' = [readyState EXCEPT ![ws] = "CONNECTING"]
  /\ listeners' = [listeners EXCEPT ![ws] = FALSE]
  /\ playerId' = [playerId EXCEPT ![ws] = NoName]
  /\ out' = NoOut
  /\ last' = [op |-> "recycle", conn |-> ws, threw |-> "no",
              evicted |-> {}, before |-> Ids(players), eligible |-> {},
              fresh |-> {}]
  /\ UNCHANGED <<players, nextColorIndex, now, pingInterval, crashed>>

(***************************************************************************)
(* ws.on('message'): one inbound frame on transport ws.                    *)
(***************************************************************************)
\* String.prototype.replace(/ch/g, rep) on a string held as a sequence of
\* characters
RECURSIVE replaceAll(_, _, _)
replaceAll(m, ch, rep) ==
  IF m = <<>> THEN <<>>
  ELSE (IF Head(m) = ch THEN rep ELSE <<Head(m)>>)
       \o replaceAll(Tail(m), ch, rep)

\* only the first of the two replacements
sanitize_ltOnly(message) == replaceAll(message, "<", <<"&", "l", "t", ";">>)

sanitize(message) ==
  replaceAll(replaceAll(message, "<", <<"&", "l", "t", ";">>),
             ">", <<"&", "g", "t", ";">>)

\* as broadcastToOthers chooses them: the sender left out
chatRecipients_others(P, rs, id) ==
  {c \in OpenSockets(P, rs) : \A i \in 1..Len(P) :
                                P[i].socket = c => P[i].id # id}

\* the transports broadcastChat sends to: every registered open one, the
\* sender's included
chatRecipients(P, rs, id) == OpenSockets(P, rs)

\* message.replace is not a function unless message is a string: the
\* TypeError ends broadcastChat before anything is sent
replaceThrows_never(message) == FALSE
replaceThrows(message) == message.t # "string"

\* the characters of a string
chars(message) == IF "chars" \in DOMAIN message THEN message.chars ELSE <<>>

\* broadcastChat: the frames it sends, given the registry P
broadcastChat(P, rs, id, message) ==
  IF \/ ~MapHas(P, id)
     \/ ~truthy(message)
     \/ (message.t = "string" /\ Len(chars(message)) > MaxChatLen)
     \/ replaceThrows(message)
  THEN NoOut
  ELSE SendTo(NoOut, chatRecipients(P, rs, id),
              ChatFrame(id, MapGet(P, id).color, sanitize(chars(message))))

\* player.lastUpdate = Date.now() on the entry under id, if there is one
Touch(P, id, t) ==
  [i \in 1..Len(P) |->
     IF P[i].id = id THEN [P[i] EXCEPT !.lastUpdate = t] ELSE P[i]]

isValidPosition(position) ==
  /\ truthy(position)
  /\ position.t = "object"
  /\ isNumber(position.x) /\ isNumber(position.y) /\ isNumber(position.z)
  /\ ~isNaN(position.x) /\ ~isNaN(position.y) /\ ~isNaN(position.z)

isValidRotation_any(rotation) == TRUE
isValidRotation(rotation) ==
  /\ truthy(rotation)
  /\ rotation.t = "object"
  /\ isNumber(rotation.x) /\ isNumber(rotation.y) /\ isNumber(rotation.z)
  /\ ~isNaN(rotation.x) /\ ~isNaN(rotation.y) /\ ~isNaN(rotation.z)

\* updatePlayerPosition: the registry it leaves
updatePlayerPosition(P, id, data, t) ==
  IF ~MapHas(P, id) THEN P
  ELSE IF ~isValidPosition(data.position) \/ ~isValidRotation(data.rotation)
  THEN P
  ELSE [i \in 1..Len(P) |->
          IF P[i].id = id
          THEN [P[i] EXCEPT !.position = data.position,
                            !.rotation = data.rotation,
                            !.lastUpdate = t]
          ELSE P[i]]

PlayerAlienModeFrame(id, isAlienMode, planetId) ==
  [type |-> "playerAlienMode", playerId |-> id,
   isAlienMode |-> isAlienMode, planetId |-> planetId]

\* the payload's planetId kept as it came
landedPlanetIdOf_verbatim(planetId) == planetId
\* player.landedPlanetId: the payload's planetId if truthy, else null
landedPlanetIdOf(planetId) == IF truthy(planetId) THEN planetId ELSE Null

\* updatePlayerAlienMode: the registry it leaves and the frames it sends
updatePlayerAlienMode(P, rs, id, data) ==
  IF ~MapHas(P, id) THEN [players |-> P, out |-> NoOut]
  ELSE LET landed == landedPlanetIdOf(data.planetId)
           Q == [i \in 1..Len(P) |->
                   IF P[i].id = id
                   THEN [P[i] EXCEPT !.isAlienMode = data.isAlienMode,
                                     !.landedPlanetId = landed]
                   ELSE P[i]]
       IN [players |-> Q,
           out |-> broadcastToAll(Q, NoOut, rs,
                     PlayerAlienModeFrame(id, data.isAlienMode, landed))]

BombPlacedFrame(id, planetId, position, countdown) ==
  [type |-> "bombPlaced", playerId |-> id, planetId |-> planetId,
   position |-> position, countdown |-> countdown]

\* data.countdown || 10
countdownOrDefault(countdown) ==
  IF truthy(countdown) THEN countdown ELSE Num(10)

\* handleBombPlacement: the frames it sends
handleBombPlacement(P, rs, id, data) ==
  IF ~truthy(data.planetId) \/ ~isValidPosition(data.position) THEN NoOut
  ELSE broadcastToAll(P, NoOut, rs,
         BombPlacedFrame(id, data.planetId, data.position,
                         countdownOrDefault(data.countdown)))

PlanetDestroyedFrame(id, planetId) ==
  [type |-> "planetDestroyed", playerId |-> id, planetId |-> planetId]

\* without the guard on planetId
handlePlanetDestruction_unchecked(P, rs, id, planetId) ==
  broadcastToAll(P, NoOut, rs, PlanetDestroyedFrame(id, planetId))

\* handlePlanetDestruction: the frames it sends
handlePlanetDestruction(P, rs, id, planetId) ==
  IF ~truthy(planetId) THEN NoOut
  ELSE handlePlanetDestruction_unchecked(P, rs, id, planetId)

\* case 'pong': player.latency = Date.now() - data.pingTime
pong(P, id, data, t) ==
  IF MapHas(P, id) /\ truthy(data.pingTime)
  THEN [i \in 1..Len(P) |->
          IF P[i].id = id
          THEN [P[i] EXCEPT !.latency = Num(t - data.pingTime.v)]
          ELSE P[i]]
  ELSE P

\* an inbound frame is a record: the parsed JSON object with its type, the
\* JSON literal null, or text that JSON.parse rejects
Unparseable == [raw |-> "{"]
parses(data) == "raw" \notin DOMAIN data
\* data.type on null is a TypeError
typeThrows(data) == data = Null

\* the switch on data.type: the registry it leaves and the frames it sends
dispatch(P, rs, id, data, t) ==
  CASE data.type = "updatePosition" ->
         [players |-> updatePlayerPosition(P, id, data, t), out |-> NoOut]
    [] data.type = "alienMode" -> updatePlayerAlienMode(P, rs, id, data)
    [] data.type = "placeBomb" ->
         [players |-> P, out |-> handleBombPlacement(P, rs, id, data)]
    [] data.type = "planetDestroyed" ->
         [players |-> P,
          out |-> handlePlanetDestruction(P, rs, id, data.planetId)]
    [] data.type = "chat" ->
         [players |-> P, out |-> broadcastChat(P, rs, id, data.message)]
    [] data.type = "pong" -> [players |-> pong(P, id, data, t), out |-> NoOut]
    [] OTHER -> [players |-> P, out |-> NoOut]

ChatMessages ==
  {Text(<<"h", "i">>), Text(<<"<", "b", ">">>), Text(<<>>)}
ChatInbound == {[type |-> "chat", message |-> m] : m \in ChatMessages}
\* data.message of further chat frames: a blank string, a string one
\* character too long, a number, and a frame without the field
EdgeMessages ==
  {Text(<<"<", "b", ">">>), Text(<<" ">>),
   Text([i \in 1..(MaxChatLen + 1) |-> "a"]), Num(5), Undefined}
\* chat frames, the JSON literal null and text that is not JSON
EdgeInbound ==
  {[type |-> "chat", message |-> m] : m \in EdgeMessages}
    \cup {Null, Unparseable}
OtherInbound == {[type |-> "hello"]}

wsOnMessage(ws, data) ==
  LET id == playerId[ws]
      P == IF parses(data) THEN Touch(players, id, now) ELSE players
      r == IF parses(data) /\ ~typeThrows(data)
           THEN dispatch(P, readyState, id, data, now)
           ELSE [players |-> P, out |-> NoOut]
  IN /\ ~crashed
     /\ listeners[ws]
     /\ readyState[ws] = "OPEN"
     /\ players' = r.players
     /\ out' = r.out
     /\ last' = [op |-> "message", conn |-> ws, threw |-> "no",
                 evicted |-> {}, before |-> Ids(players),
                 eligible |-> OpenSockets(players, readyState),
                 fresh |-> {}, data |-> data]
     /\ UNCHANGED <<nextColorIndex, now, readyState, playerId, listeners,
                    pingInterval, crashed>>

(***************************************************************************)
(* ws.on('close'): the transport is CLOSED when the event fires.           *)
(***************************************************************************)
\* as the error handler: no broadcast
closeNotice_silent(P, rs, id) == NoOut

\* the broadcast of the close handler
closeNotice(P, rs, id) == broadcastToAll(P, NoOut, rs, PlayerLeftFrame(id))

wsOnClose(ws) ==
  LET id == playerId[ws]
      rs == [readyState EXCEPT ![ws] = "CLOSED"]
      P == MapDelete(players, id)
  IN /\ ~crashed
     /\ listeners[ws]
     /\ readyState[ws] \in {"OPEN", "CLOSING"}
     /\ readyState' = rs
     /\ pingInterval' = [pingInterval EXCEPT ![ws] = FALSE]
     /\ out' = closeNotice(players, rs, id)
     /\ players' = P
     /\ last' = [op |-> "close", conn |-> ws, threw |-> "no",
                 evicted |-> {}, before |-> Ids(players),
                 eligible |-> OpenSockets(P, rs), fresh |-> {}]
     /\ UNCHANGED <<nextColorIndex, now, playerId, listeners, crashed>>

(***************************************************************************)
(* ws.on('error'): the transport has left OPEN when the event fires, and   *)
(* its close event follows.                                                *)
(***************************************************************************)
wsOnError(ws) ==
  LET id == playerId[ws]
      rs == [readyState EXCEPT ![ws] = "CLOSING"]
      P == MapDelete(players, id)
  IN /\ ~crashed
     /\ listeners[ws]
     /\ readyState[ws] = "OPEN"
     /\ readyState' = rs
     /\ pingInterval' = [pingInterval EXCEPT ![ws] = FALSE]
     /\ out' = NoOut
     /\ players' = P
     /\ last' = [op |-> "error", conn |-> ws, threw |-> "no",
                 evicted |-> {}, before |-> Ids(players),
                 eligible |-> OpenSockets(P, rs), fresh |-> {}]
     /\ UNCHANGED <<nextColorIndex, now, playerId, listeners, crashed>>

(***************************************************************************)
(* syncGameState, run by the SYNC_RATE timer with Date.now() = t.          *)
(***************************************************************************)
\* the sweep: Map.forEach visits the entries in order; deleting the entry
\* being visited does not disturb the visit of the others
RECURSIVE sweep(_, _, _, _, _, _)
sweep(i, P0, P, t, rs, o) ==
  IF i > Len(P0) THEN [players |-> P, out |-> o]
  ELSE IF t - P0[i].lastUpdate > timeout
       THEN LET P1 == MapDelete(P, P0[i].id)
            IN sweep(i + 1, P0, P1, t, rs,
                     broadcastToAll(P1, o, rs, PlayerLeftFrame(P0[i].id)))
       ELSE sweep(i + 1, P0, P, t, rs, o)

\* no refresh
refresh_never(P, t) == P

\* the refresh at the end of the tick
refresh(P, t) ==
  [i \in 1..Len(P) |->
     IF t - P[i].lastUpdate > SYNC_RATE * 2
     THEN [P[i] EXCEPT !.lastUpdate = t] ELSE P[i]]

\* a forEach of sends with no try/catch of their own: it stops at the
\* first send that throws
snapshotSend_abort(P, o, rs, F, data) ==
  LET elig == SelectSeq(P, LAMBDA e : rs[e.socket] = "OPEN")
      bad  == {i \in 1..Len(elig) : elig[i].socket \in F}
      stop == IF bad = {} THEN Len(elig)
              ELSE CHOOSE i \in bad : \A j \in bad : i <= j
  IN [out |-> SendTo(o, {elig[i].socket : i \in 1..stop}, data),
      threw |-> bad # {}]

\* the snapshot fan-out: every send has its own try/catch, so a throw
\* (for the transports in F) ends neither the forEach nor the tick
snapshotSend(P, o, rs, F, data) ==
  [out |-> SendTo(o, OpenSockets(P, rs), data), threw |-> FALSE]

\* F: the transports whose send() throws during this tick.  An exception
\* that left the fan-out would be caught by the function's outer try/catch
\* and skip the refresh.
syncGameState(t, F) ==
  LET sw == sweep(1, players, players, t, readyState, NoOut)
      P == sw.players
      sn == snapshotSend(P, sw.out, readyState, F, GameStateFrame(P, t))
  IN /\ ~crashed
     /\ out' = sn.out
     /\ players' = IF sn.threw THEN P ELSE refresh(P, t)
     /\ last' = [op |-> "tick", conn |-> 0, threw |-> "no",
                 evicted |-> Sockets(players) \ Sockets(P),
                 before |-> Ids(players),
                 eligible |-> OpenSockets(P, readyState),
                 fresh |-> sinceTick,
                 failed |-> F \cap OpenSockets(P, readyState)]
     /\ UNCHANGED <<nextColorIndex, readyState, playerId, listeners,
                    pingInterval, crashed>>

\* the timer fires, whenever the event loop gets to it
Tick == syncGameState(now, {}) /\ UNCHANGED now

\* the timer fires, and send() throws for some transports
FailingTick ==
  \E F \in SUBSET Conns : syncGameState(now, F) /\ UNCHANGED now

\* the timer fires exactly SYNC_RATE after its last firing
PeriodicTick ==
  /\ now + SYNC_RATE <= MaxTimedNow
  /\ now' = now + SYNC_RATE
  /\ syncGameState(now + SYNC_RATE, {})

(***************************************************************************)
(* The per-connection ping timer and the heartbeat timer.                  *)
(***************************************************************************)
PingFrame(t) == [type |-> "ping", timestamp |-> t]
HeartbeatFrame(t) == [type |-> "heartbeat", timestamp |-> t]

\* the ping timer of transport ws fires; fails: its send() throws.
\* playerData is the object the connection handler made: it is in the
\* registry while an entry holds ws.
Ping(ws, fails) ==
  /\ ~crashed
  /\ pingInterval[ws]
  /\ IF readyState[ws] = "OPEN"
     THEN /\ players' = [i \in 1..Len(players) |->
                           IF players[i].socket = ws
                           THEN [players[i] EXCEPT !.pingTime = now]
                           ELSE players[i]]
          /\ out' = SendTo(NoOut, {ws}, PingFrame(now))
          /\ pingInterval' = [pingInterval EXCEPT ![ws] = ~fails]
     ELSE /\ players' = players
          /\ out' = NoOut
          /\ pingInterval' = [pingInterval EXCEPT ![ws] = FALSE]
  /\ last' = [op |-> "ping", conn |-> ws, threw |-> "no", evicted |-> {},
              before |-> Ids(players), eligible |-> {}, fresh |-> {},
              failed |-> IF fails /\ readyState[ws] = "OPEN" THEN {ws}
                         ELSE {}]
  /\ UNCHANGED <<nextColorIndex, now, readyState, playerId, listeners,
                 crashed>>

\* sendHeartbeat; F: the transports whose send() throws
sendHeartbeat(F) ==
  /\ ~crashed
  /\ out' = SendTo(NoOut, OpenSockets(players, readyState),
                   HeartbeatFrame(now))
  /\ last' = [op |-> "heartbeat", conn |-> 0, threw |-> "no",
              evicted |-> {}, before |-> Ids(players),
              eligible |-> OpenSockets(players, readyState), fresh |-> {},
              failed |-> F \cap OpenSockets(players, readyState)]
  /\ UNCHANGED <<players, nextColorIndex, now, readyState, playerId,
                 listeners, pingInterval, crashed>>

\* time passes with no handler running
AdvanceTime(d) ==
  /\ ~crashed
  /\ now + d <= MaxNow
  /\ now' = now + d
  /\ out' = NoOut
  /\ last' = [op |-> "time", conn |-> 0, threw |-> "no", evicted |-> {},
              before |-> Ids(players), eligible |-> {}, fresh |-> {}]
  /\ UNCHANGED <<players, nextColorIndex, readyState, playerId, listeners,
                 pingInterval, crashed>>

(***************************************************************************)
(* The client (network module and app.js).  multiplayer holds the fields   *)
(* of gameState.multiplayer that the connection logic uses, with socket 0  *)
(* for null, together with the readyState of every WebSocket the client    *)
(* created, whether its connectionTimeout is pending, which sockets were   *)
(* closed before they opened, and how many retry and reconnect timers are  *)
(* pending.  The browser runs one callback at a time: each listener or     *)
(* timer callback is one action, and the error and close events of a       *)
(* connection that failed are fired back to back, with nothing in between. *)
(* Timers are not timed: a pending timer fires at any moment.              *)
(***************************************************************************)
ClientSockets == 1..MaxSockets
LiveSockets(k) ==
  {s \in ClientSockets : k.readyState[s] \in {"CONNECTING", "OPEN"}}
Unused(k) == {s \in ClientSockets : k.readyState[s] = "NONE"}

\* socket.close(): nothing on a socket that is closing or closed; on one
\* that is connecting it fails the connection
socketClose(k, s) ==
  IF s # 0 /\ k.readyState[s] \in {"CONNECTING", "OPEN"}
  THEN [k EXCEPT !.readyState[s] = "CLOSING",
                 !.failing = IF k.readyState[s] = "CONNECTING"
                             THEN @ \cup {s} ELSE @]
  ELSE k

disableMultiplayer(k) ==
  [socketClose(k, k.socket) EXCEPT !.enabled = FALSE, !.socket = 0]

handleConnectionFailure(k) ==
  LET d == disableMultiplayer(k)
  IN IF d.connectionRetries < maxRetries
     THEN [d EXCEPT !.connectionRetries = @ + 1,
                    !.retryDelay = Min(@ * 2, 30000),
                    !.retryTimers = @ + 1]
     ELSE [d EXCEPT !.connectionRetries = 0, !.retryDelay = 1000]

\* initMultiplayer: the new WebSocket becomes gameState.multiplayer.socket;
\* whatever socket was there before is left as it is
initMultiplayer(k) ==
  IF k.enabled THEN k
  ELSE LET k1 == IF k.connectionRetries = 0
                 THEN [k EXCEPT !.retryDelay = 1000] ELSE k
           s == CHOOSE n \in Unused(k) : \A m \in Unused(k) : n <= m
       IN [k1 EXCEPT !.socket = s, !.readyState[s] = "CONNECTING",
                     !.connectionTimeout[s] = TRUE]

\* initMultiplayer can run: it returns at once, or there is a socket to make
CanInit(k) == k.enabled \/ Unused(k) # {}

\* the listeners initMultiplayer installs on socket s
onOpen(k, s) ==
  [k EXCEPT !.connectionTimeout[s] = FALSE, !.enabled = TRUE,
            !.connectionRetries = 0, !.retryDelay = 1000]

onClose(k, s) ==
  LET k1 == [k EXCEPT !.connectionTimeout[s] = FALSE]
  IN IF k1.enabled THEN handleConnectionFailure(k1)
     ELSE disableMultiplayer(k1)

onError(k, s) ==
  handleConnectionFailure([k EXCEPT !.connectionTimeout[s] = FALSE])

\* the connectionTimeout callback of socket s
onConnectionTimeout(k, s) ==
  LET k1 == [k EXCEPT !.connectionTimeout[s] = FALSE]
  IN IF k1.readyState[s] # "OPEN"
     THEN handleConnectionFailure(socketClose(k1, s))
     ELSE k1

\* the server accepts the connection of socket s: its open event
SocketOpens(s) ==
  /\ multiplayer.readyState[s] = "CONNECTING"
  /\ multiplayer' = onOpen([multiplayer EXCEPT !.readyState[s] = "OPEN"], s)
  /\ did' = [op |-> "open", socket |-> s]

\* the connection of socket s is over: its close event, after its error
\* event if the connection failed.  A connection that never opened failed;
\* one that the client closed after it opened did not; one that opened and
\* was lost may have.
SocketCloses(s, failed) ==
  LET k0 == [multiplayer EXCEPT !.readyState[s] = "CLOSED",
                                !.failing = @ \ {s}]
      k1 == IF failed THEN onError(k0, s) ELSE k0
  IN /\ multiplayer.readyState[s] \in {"CONNECTING", "OPEN", "CLOSING"}
     /\ multiplayer.readyState[s] = "CONNECTING" => failed
     /\ multiplayer.readyState[s] = "CLOSING"
          => (failed <=> s \in multiplayer.failing)
     /\ multiplayer' = onClose(k1, s)
     /\ did' = [op |-> "close", socket |-> s]

\* 5 s after socket s was made
ConnectionTimeout(s) ==
  /\ multiplayer.connectionTimeout[s]
  /\ multiplayer' = onConnectionTimeout(multiplayer, s)
  /\ did' = [op |-> "timeout", socket |-> s]

\* the timer handleConnectionFailure set
RetryTimer ==
  /\ multiplayer.retryTimers > 0
  /\ CanInit(multiplayer)
  /\ LET k == [multiplayer EXCEPT !.retryTimers = @ - 1]
     IN multiplayer' = IF ~k.enabled THEN initMultiplayer(k) ELSE k
  /\ did' = [op |-> "retry", socket |-> 0]

\* checkMultiplayerConnection, when no server message came for 15 s
checkMultiplayerConnection ==
  /\ multiplayer.enabled
  /\ multiplayer.checks < MaxChecks
  /\ multiplayer' =
       [socketClose(multiplayer, multiplayer.socket)
          EXCEPT !.reconnectTimers = @ + 1, !.checks = @ + 1]
  /\ did' = [op |-> "check", socket |-> 0]

\* the timer checkMultiplayerConnection set
ReconnectTimer ==
  /\ multiplayer.reconnectTimers > 0
  /\ CanInit(multiplayer)
  /\ multiplayer' =
       initMultiplayer([multiplayer EXCEPT !.reconnectTimers = @ - 1])
  /\ did' = [op |-> "reconnect", socket |-> 0]

\* a click on the multiplayer button
ToggleClick ==
  /\ multiplayer.clicks < MaxClicks
  /\ CanInit(multiplayer)
  /\ LET k == [multiplayer EXCEPT !.clicks = @ + 1]
     IN multiplayer' = IF k.enabled THEN disableMultiplayer(k)
                       ELSE initMultiplayer(k)
  /\ did' = [op |-> "click", socket |-> 0]

(***************************************************************************)
(* History variables.  They record what the handlers did and have no       *)
(* effect on the program's state; each specification keeps the ones its    *)
(* properties read and leaves the others at their initial value.           *)
(***************************************************************************)
\* the transports whose registry entry is in P but not in Q
Dropped(P, Q) == Sockets(P) \ Sockets(Q)

\* the handlers that take a session out of the registry
Departure == [close |-> "close", error |-> "error", tick |-> "sweep"]

\* gone[k]: how transport k's registry entry left the registry
TrackGone ==
  gone' = [k \in Conns |->
             IF crashed' \/ k \notin Dropped(players, players')
             THEN gone[k]
             ELSE IF last'.op \in DOMAIN Departure
                  THEN Departure[last'.op] ELSE "overwritten"]

\* leftCount[k][r]: the playerLeft frames carrying k's id sent to r since
\* k's entry left the registry, the departing handler's frames included
TrackLeftCount ==
  leftCount' =
    [k \in Conns |-> [r \in Conns |->
       IF gone'[k] \in {"close", "error", "sweep"}
       THEN Min(leftCount[k][r]
                + Cardinality({i \in 1..Len(out'[r]) :
                                 out'[r][i] = PlayerLeftFrame(playerId'[k])}),
                MaxLeftCount)
       ELSE leftCount[k][r]]]

\* owed[k]: the transports that have stayed registered and open since k's
\* entry left the registry (by close, error or sweep) and have not been
\* sent a playerLeft frame carrying k's id
TrackOwed ==
  owed' =
    [k \in Conns |->
       {r \in (IF last'.op \in DOMAIN Departure
                  /\ k \in Dropped(players, players')
               THEN OpenSockets(players', readyState')
               ELSE owed[k] \cap OpenSockets(players', readyState')) :
          \A i \in 1..Len(out'[r]) :
            out'[r][i] # PlayerLeftFrame(playerId'[k])}]

\* sinceTick: the transports whose connect handler completed since the
\* last tick
TrackSinceTick ==
  sinceTick' = IF last'.op = "tick" THEN {}
               ELSE IF last'.op = "connect" /\ ~crashed'
                    THEN sinceTick \cup {last'.conn}
                    ELSE sinceTick

\* connectedAt[c]: the clock reading when transport c connected
TrackConnectedAt ==
  connectedAt' = [c \in Conns |->
                    IF readyState[c] = "CONNECTING"
                       /\ readyState'[c] # "CONNECTING"
                    THEN now ELSE connectedAt[c]]

\* pose[c]: the position and rotation of the last updatePosition frame
\* that updatePlayerPosition accepted from transport c
TrackPose ==
  pose' = [c \in Conns |->
             IF /\ last'.op = "message" /\ last'.conn = c
                /\ "type" \in DOMAIN last'.data
                /\ last'.data.type = "updatePosition"
                /\ MapHas(players, playerId[c])
                /\ isValidPosition(last'.data.position)
                /\ isValidRotation(last'.data.rotation)
             THEN [position |-> last'.data.position,
                   rotation |-> last'.data.rotation]
             ELSE IF last'.op = "connect" /\ last'.conn = c
                  THEN Undefined ELSE pose[c]]

\* counted[s]: the retries the handlers of socket s counted; scheduled: the
\* retry timers set since the last open event
TrackRetries ==
  LET n == IF did'.op \in {"close", "timeout"}
              /\ multiplayer'.retryTimers > multiplayer.retryTimers
           THEN multiplayer'.retryTimers - multiplayer.retryTimers ELSE 0
  IN /\ counted' = [s \in ClientSockets |->
                      IF s = did'.socket THEN counted[s] + n ELSE counted[s]]
     /\ scheduled' = IF did'.op = "open" THEN 0 ELSE scheduled + n

\* assigned: the playerColor of the init frame of every connect that
\* supplied no color
TrackAssigned ==
  assigned' = IF last'.op = "connect" /\ last'.color = NoColor
                 /\ readyState[last'.conn] = "CONNECTING"
              THEN Append(assigned, out'[last'.conn][1].playerColor)
              ELSE assigned

(***************************************************************************)
(* Specifications                                                          *)
(***************************************************************************)
\* the first n transports arrive; generateId() is called only when the URL
\* has no username
Arrivals(n, colors) ==
  \E ws \in 1..n, username \in Usernames \cup {NoName}, color \in colors,
     rid \in RandomIds, F \in SUBSET Conns :
       /\ (username # NoName => rid = CHOOSE r \in RandomIds : TRUE)
       /\ Connect(ws, username, color, rid, F)

DoConnect == Arrivals(NConn, {NoColor})
DoMessage == \E ws \in Conns, data \in OtherInbound : wsOnMessage(ws, data)
DoClose == \E ws \in Conns : wsOnClose(ws)
DoError == \E ws \in Conns : wsOnError(ws)
DoAdvance == \E d \in Delays : AdvanceTime(d)

\* the server's handlers leave the client alone, and the client's the server
ClientIdle == UNCHANGED <<multiplayer, did, counted, scheduled>>
ServerIdle ==
  UNCHANGED <<players, nextColorIndex, now, readyState, playerId, listeners,
              pingInterval, crashed, out, last, gone, leftCount, owed,
              sinceTick, connectedAt, pose, assigned>>

\* Spec: the session lifecycle, with the timer firing at any time
Watch ==
  /\ ClientIdle
  /\ TrackGone
  /\ TrackLeftCount
  /\ UNCHANGED <<owed, sinceTick, connectedAt, pose, assigned>>

Next ==
  \/ DoConnect /\ Watch
  \/ DoMessage /\ Watch
  \/ DoClose /\ Watch
  \/ DoError /\ Watch
  \/ Tick /\ Watch
  \/ DoAdvance /\ Watch

Spec == Init /\ [][Next]_vars

\* SpecChat: chat frames, with colors from the URL or the palette
ChatConnect == Arrivals(ChatConns, Colors \cup {NoColor})
ChatMessage == \E ws \in Conns, data \in ChatInbound : wsOnMessage(ws, data)
\* no history kept
WatchChat ==
  /\ ClientIdle
  /\ UNCHANGED <<gone, leftCount, owed, sinceTick, connectedAt, pose,
                 assigned>>

NextChat ==
  \/ ChatConnect /\ WatchChat
  \/ ChatMessage /\ WatchChat
  \/ DoClose /\ WatchChat
  \/ DoError /\ WatchChat
  \/ Tick /\ WatchChat
  \/ DoAdvance /\ WatchChat

SpecChat == Init /\ [][NextChat]_vars

\* SpecPeriodic: the timer fires every SYNC_RATE ms and no frame arrives
TimedConnect == now <= ArriveUntil /\ Arrivals(TimedConns, {NoColor})
WatchPeriodic ==
  /\ ClientIdle
  /\ TrackGone
  /\ TrackSinceTick
  /\ TrackConnectedAt
  /\ UNCHANGED <<leftCount, owed, pose, assigned>>

NextPeriodic ==
  \/ TimedConnect /\ WatchPeriodic
  \/ DoClose /\ WatchPeriodic
  \/ DoError /\ WatchPeriodic
  \/ PeriodicTick /\ WatchPeriodic

SpecPeriodic == Init /\ [][NextPeriodic]_vars

\* SpecLive: the lifecycle, where the close event that follows an error
\* event does fire
LiveConnect == Arrivals(LiveConns, {NoColor})
WatchLive ==
  /\ ClientIdle
  /\ TrackGone
  /\ TrackOwed
  /\ UNCHANGED <<leftCount, sinceTick, connectedAt, pose, assigned>>

NextLive ==
  \/ LiveConnect /\ WatchLive
  \/ DoMessage /\ WatchLive
  \/ DoClose /\ WatchLive
  \/ DoError /\ WatchLive
  \/ Tick /\ WatchLive
  \/ DoAdvance /\ WatchLive

CloseAfterError(ws) ==
  readyState[ws] = "CLOSING" /\ wsOnClose(ws) /\ WatchLive

SpecLive ==
  /\ Init
  /\ [][NextLive]_vars
  /\ \A ws \in Conns : WF_vars(CloseAfterError(ws))

\* SpecRelay: chat frames that are rejected, escaped or malformed
RelayConnect == Arrivals(RelayConns, {NoColor})
RelayMessage == \E ws \in Conns, data \in EdgeInbound : wsOnMessage(ws, data)

NextRelay ==
  \/ RelayConnect /\ WatchChat
  \/ RelayMessage /\ WatchChat
  \/ DoClose /\ WatchChat
  \/ DoError /\ WatchChat

SpecRelay == Init /\ [][NextRelay]_vars

\* SpecMove: position updates and bomb placements between ticks
Positions ==
  {Vec(Num(1), Num(2), Num(3)), Vec(Num(4), Num(5), Num(6)),
   Vec(Num(1), NaN, Num(3)),
   Vec(Undefined, Num(2), Num(3)), Vec(Num(1), Num(2), Str("3")), Undefined}
Rotations == {Vec(Num(0), Num(1), Num(0)), Vec(NaN, Num(1), Num(0)), Undefined}
PlanetIds == {Str("p1"), Undefined}
Countdowns == {Undefined, Num(0), Num(5)}
MoveInbound ==
  {[type |-> "updatePosition", position |-> p, rotation |-> r] :
     p \in Positions, r \in Rotations}
BombInbound ==
  {[type |-> "placeBomb", planetId |-> pl, position |-> p, countdown |-> cd] :
     pl \in PlanetIds, p \in {Vec(Num(1), Num(2), Num(3)), Undefined},
     cd \in Countdowns}

MoveConnect == Arrivals(MoveConns, {NoColor})
MoveMessage == \E ws \in Conns, data \in MoveInbound : wsOnMessage(ws, data)
BombMessage == \E ws \in Conns, data \in BombInbound : wsOnMessage(ws, data)
WatchMove ==
  /\ ClientIdle
  /\ TrackPose
  /\ UNCHANGED <<gone, leftCount, owed, sinceTick, connectedAt, assigned>>

NextMove ==
  \/ MoveConnect /\ WatchMove
  \/ MoveMessage /\ WatchMove
  \/ BombMessage /\ WatchMove
  \/ DoClose /\ WatchMove
  \/ DoError /\ WatchMove
  \/ Tick /\ WatchMove

SpecMove == Init /\ [][NextMove]_vars

\* SpecPose: position updates alone
PoseConnect == Arrivals(PoseConns, {NoColor})

NextPose ==
  \/ PoseConnect /\ WatchChat
  \/ MoveMessage /\ WatchChat
  \/ DoClose /\ WatchChat
  \/ DoError /\ WatchChat

SpecPose == Init /\ [][NextPose]_vars

\* SpecSilent: frames of every type, most of them failing validation
SilentInbound ==
  {[type |-> "updatePosition", position |-> p, rotation |-> r] :
     p \in {Vec(Num(1), NaN, Num(3)), Undefined},
     r \in {Vec(Num(0), Num(1), Num(0)), Undefined}}
  \cup {[type |-> "updatePosition", position |-> Vec(Num(1), Num(2), Num(3)),
         rotation |-> Undefined]}
  \cup
  {[type |-> "placeBomb", planetId |-> pl, position |-> p,
    countdown |-> Num(5)] :
     pl \in {Str("p1"), Undefined},
     p \in {Vec(Num(1), Num(2), Num(3)), Undefined}}
  \cup {[type |-> "planetDestroyed", planetId |-> pl] :
          pl \in {Str("p1"), Str(""), Undefined}}
  \cup {[type |-> "chat", message |-> m] :
          m \in {Text(<<"h", "i">>), Text(<<>>), Undefined,
                 Text([i \in 1..(MaxChatLen + 1) |-> "a"])}}
  \cup {[type |-> "hello"]}

SilentConnect == Arrivals(SilentConns, {NoColor})
SilentMessage ==
  \E ws \in Conns, data \in SilentInbound : wsOnMessage(ws, data)

NextSilent ==
  \/ SilentConnect /\ WatchChat
  \/ SilentMessage /\ WatchChat
  \/ DoClose /\ WatchChat
  \/ DoAdvance /\ WatchChat

SpecSilent == Init /\ [][NextSilent]_vars

\* SpecAlien: alienMode frames, from sessions the sweep may have evicted
AlienInbound ==
  {[type |-> "alienMode", isAlienMode |-> TRUE, planetId |-> Str("p1")],
   [type |-> "alienMode", isAlienMode |-> TRUE, planetId |-> Str("")],
   [type |-> "alienMode", isAlienMode |-> FALSE, planetId |-> Undefined]}

AlienConnect == Arrivals(AlienConns, {NoColor})
AlienMessage == \E ws \in Conns, data \in AlienInbound : wsOnMessage(ws, data)

NextAlien ==
  \/ AlienConnect /\ WatchChat
  \/ AlienMessage /\ WatchChat
  \/ DoClose /\ WatchChat
  \/ Tick /\ WatchChat
  \/ DoAdvance /\ WatchChat

SpecAlien == Init /\ [][NextAlien]_vars

\* SpecIdle: the timer fires every SYNC_RATE ms, no frame arrives, and
\* send() never throws
IdleConnect == now <= ArriveUntil /\ Arrivals(IdleConns, {NoColor})

NextIdle ==
  \/ IdleConnect /\ WatchChat
  \/ DoClose /\ WatchChat
  \/ PeriodicTick /\ WatchChat

SpecIdle == Init /\ [][NextIdle]_vars

\* SpecGhost: frames that cause a broadcast, from sessions the sweep may
\* have evicted
GhostInbound ==
  {[type |-> "chat", message |-> Text(<<"h", "i">>)],
   [type |-> "alienMode", isAlienMode |-> TRUE, planetId |-> Str("p1")],
   [type |-> "placeBomb", planetId |-> Str("p1"),
    position |-> Vec(Num(1), Num(2), Num(3)), countdown |-> Num(5)],
   [type |-> "planetDestroyed", planetId |-> Str("p1")]}

GhostConnect == Arrivals(GhostConns, {NoColor})
GhostMessage == \E ws \in Conns, data \in GhostInbound : wsOnMessage(ws, data)

NextGhost ==
  \/ GhostConnect /\ WatchChat
  \/ GhostMessage /\ WatchChat
  \/ DoClose /\ WatchChat
  \/ Tick /\ WatchChat
  \/ DoAdvance /\ WatchChat

SpecGhost == Init /\ [][NextGhost]_vars

\* SpecClient: the client's connection logic, against a server that may
\* accept, refuse, drop or never answer
WatchClient == TrackRetries /\ ServerIdle

NextClient ==
  \/ ToggleClick /\ WatchClient
  \/ (\E s \in ClientSockets : SocketOpens(s)) /\ WatchClient
  \/ (\E s \in ClientSockets, failed \in BOOLEAN : SocketCloses(s, failed))
       /\ WatchClient
  \/ (\E s \in ClientSockets : ConnectionTimeout(s)) /\ WatchClient
  \/ RetryTimer /\ WatchClient
  \/ checkMultiplayerConnection /\ WatchClient
  \/ ReconnectTimer /\ WatchClient

SpecClient == Init /\ [][NextClient]_vars

\* SpecColors: transports come and go, with and without a color of their
\* own
ColorConnect ==
  Len(assigned) < MaxAssigned /\ Arrivals(ColorConns, Colors \cup {NoColor})
DoRecycle == \E ws \in Conns : Recycle(ws)
WatchColors ==
  /\ ClientIdle
  /\ TrackAssigned
  /\ UNCHANGED <<gone, leftCount, owed, sinceTick, connectedAt, pose>>

NextColors ==
  \/ ColorConnect /\ WatchColors
  \/ DoClose /\ WatchColors
  \/ DoRecycle /\ WatchColors

SpecColors == Init /\ [][NextColors]_vars

\* SpecSnap: ticks in which sends throw
SnapConnect == Arrivals(SnapConns, {NoColor})

NextSnap ==
  \/ SnapConnect /\ WatchChat
  \/ DoClose /\ WatchChat
  \/ FailingTick /\ WatchChat
  \/ DoAdvance /\ WatchChat

SpecSnap == Init /\ [][NextSnap]_vars

\* SpecTimers: the lifecycle with the ping and heartbeat timers, and sends
\* that throw
TimerConnect == Arrivals(TimerConns, {NoColor})
DoPing == \E ws \in Conns, fails \in BOOLEAN : Ping(ws, fails)
DoHeartbeat == \E F \in SUBSET Conns : sendHeartbeat(F)
WatchTimers ==
  /\ ClientIdle
  /\ TrackGone
  /\ UNCHANGED <<leftCount, owed, sinceTick, connectedAt, pose, assigned>>

NextTimers ==
  \/ TimerConnect /\ WatchTimers
  \/ DoClose /\ WatchTimers
  \/ DoError /\ WatchTimers
  \/ FailingTick /\ WatchTimers
  \/ DoPing /\ WatchTimers
  \/ DoHeartbeat /\ WatchTimers
  \/ DoAdvance /\ WatchTimers

SpecTimers == Init /\ [][NextTimers]_vars

(***************************************************************************)
(* Properties                                                              *)
(***************************************************************************)
FramesTo(r, type) == {i \in 1..Len(out[r]) : out[r][i].type = type}
HasFrame(r, frame) == \E i \in 1..Len(out[r]) : out[r][i] = frame

\* C1: a session the sweep evicted is announced by exactly one playerLeft
\* frame to each session that remained registered, over the whole run that
\* follows (a later close of the evicted transport included).
C1_EvictionExactlyOnce ==
  \A k \in Conns : gone[k] = "sweep" =>
    \A r \in Conns :
      /\ leftCount[k][r] <= 1
      /\ (last.op = "tick" /\ k \in last.evicted
          /\ r \in OpenSockets(players, readyState))
         => leftCount[k][r] = 1

\* C2: with the timer firing every 100 ms, a session that has sent nothing
\* for more than 30 s is out of the registry after the first tick past the
\* 30 s mark.  (No frame arrives in SpecPeriodic, and now is the time of
\* the last tick.)
C2_SilentSessionEvicted ==
  \A c \in Conns :
    (Live(c) /\ now - connectedAt[c] > timeout) => ~Registered(c)

\* C3: a close or error handler that runs for an id that is no longer in
\* the registry sends no playerLeft frame and leaves the registry as it was.
C3_IdempotentDisconnect ==
  (last.op \in {"close", "error"} /\ playerId[last.conn] \notin last.before)
    => /\ \A r \in Conns : FramesTo(r, "playerLeft") = {}
       /\ Ids(players) = last.before

\* C4: an open transport that registered under a requested username is the
\* handle of at most one registry entry and does not lose its entry to a
\* later connect that requests the same username.
C4_NoSilentOverwrite ==
  \A c \in Conns : (Live(c) /\ playerId[c] \in Usernames) =>
    /\ Cardinality({i \in 1..Len(players) : players[i].socket = c}) <= 1
    /\ gone[c] # "overwritten"

\* C5: when every id was generated by the server, no two live sessions
\* share an id.
C5_GeneratedIdsUnique ==
  (\A c \in Conns : readyState[c] # "CONNECTING" => playerId[c] \in RandomIds)
    => \A c, d \in Conns :
         (Live(c) /\ Live(d) /\ c # d) => playerId[c] # playerId[d]

\* C6: the first tick after a session's connect handler completed, with its
\* transport still open, builds a snapshot that holds the session's id.
C6_NextSnapshotHasNewSession ==
  last.op = "tick" =>
    \A c \in last.fresh : readyState[c] = "OPEN" =>
      /\ playerId[c] \in Ids(players)
      /\ \A r \in Conns : \A i \in FramesTo(r, "gameState") :
           \E j \in 1..Len(out[r][i].players) :
             out[r][i].players[j].id = playerId[c]

\* C7: a send that throws for one recipient of an event fan-out neither
\* keeps the event from the other eligible recipients nor aborts the
\* handler.  (Stated for the playerJoined fan-out of the connect handler.)
C7_FanOutIsolation ==
  (last.op = "connect" /\ last.threw # "init") =>
    /\ last.threw = "no"
    /\ \A r \in last.eligible : FramesTo(r, "playerJoined") # {}

\* C8: once a session has left the registry (close, error or sweep), a
\* playerLeft frame carrying its id gets sent to every session that is
\* still registered with an open transport.
C8_RemovalLeadsToPlayerLeft ==
  \A k \in Conns : (owed[k] # {}) ~> (owed[k] = {})

C8_Witness ==
  \E k, r \in Conns :
    /\ gone[k] = "error" /\ last.op = "close" /\ last.conn = k
    /\ r \in OpenSockets(players, readyState)
    /\ HasFrame(r, PlayerLeftFrame(playerId[k]))
    /\ owed[k] = {}

\* C9: the playerJoined frame for session S never goes to S's own
\* transport, and goes to every other registered session whose transport is
\* open.
C9_JoinedToOthersOnly ==
  (last.op = "connect" /\ last.threw # "init") =>
    /\ FramesTo(last.conn, "playerJoined") = {}
    /\ \A r \in last.eligible :
         \E i \in FramesTo(r, "playerJoined") :
           out[r][i].player.id = playerId[last.conn]

\* C10: a chat frame accepted from a registered session S goes to S's own
\* transport and to every other registered session with an open transport,
\* carrying S's id and S's stored color.
IsFrame(type) ==
  /\ last.op = "message"
  /\ "type" \in DOMAIN last.data
  /\ last.data.type = type

ChatAccepted ==
  /\ IsFrame("chat")
  /\ last.data.message.t = "string"
  /\ chars(last.data.message) # <<>>
  /\ Len(chars(last.data.message)) <= MaxChatLen
  /\ MapHas(players, playerId[last.conn])
  /\ MapGet(players, playerId[last.conn]).socket = last.conn

C10_ChatIncludesSender ==
  ChatAccepted =>
    \A r \in {last.conn} \cup OpenSockets(players, readyState) :
      \E i \in FramesTo(r, "chat") :
        /\ out[r][i].playerId = playerId[last.conn]
        /\ out[r][i].playerColor
             = MapGet(players, playerId[last.conn]).color

C10_Witness ==
  /\ ChatAccepted
  /\ Cardinality(OpenSockets(players, readyState)) >= 2
  /\ FramesTo(last.conn, "chat") # {}
  /\ MapGet(players, playerId[last.conn]).color \in Colors

\* C11: a chat frame whose message is longer than 200 characters, or is
\* empty once leading and trailing whitespace is removed, results in no
\* chat frame to anyone.
Blank(cs) == \A i \in 1..Len(cs) : cs[i] = " "

C11_ChatRejection ==
  (/\ IsFrame("chat")
   /\ last.data.message.t = "string"
   /\ \/ Len(chars(last.data.message)) > MaxChatLen
      \/ Blank(chars(last.data.message)))
    => \A r \in Conns : FramesTo(r, "chat") = {}

\* C12: every relayed chat message is the received text with each '<'
\* replaced by '&lt;' and each '>' by '&gt;' and nothing else changed, so it
\* holds no '<' and no '>'.
Entity(c) ==
  CASE c = "<" -> <<"&", "l", "t", ";">>
    [] c = ">" -> <<"&", "g", "t", ";">>
    [] OTHER -> <<c>>

RECURSIVE Escaped(_)
Escaped(cs) ==
  IF cs = <<>> THEN <<>>
  ELSE Escaped(SubSeq(cs, 1, Len(cs) - 1)) \o Entity(cs[Len(cs)])

C12_ChatSanitized ==
  IsFrame("chat") =>
    \A r \in Conns : \A i \in FramesTo(r, "chat") :
      /\ last.data.message.t = "string"
      /\ out[r][i].message = Escaped(chars(last.data.message))
      /\ \A j \in 1..Len(out[r][i].message) :
           out[r][i].message[j] \notin {"<", ">"}

C12_Witness ==
  /\ ChatAccepted
  /\ \E j \in 1..Len(chars(last.data.message)) :
       chars(last.data.message)[j] = ">"
  /\ \E r \in Conns : r # last.conn /\ FramesTo(r, "chat") # {}

\* C13: an updatePosition frame whose position or rotation is absent, or
\* has a coordinate that is missing, not a number or NaN, leaves every
\* stored position and rotation as it was.
Poses ==
  [i \in 1..Len(players) |->
     [id |-> players[i].id, position |-> players[i].position,
      rotation |-> players[i].rotation]]

WellFormed(v) ==
  /\ v.t = "object"
  /\ \A c \in {v.x, v.y, v.z} : c.t = "number" /\ "v" \in DOMAIN c

C13_InvalidUpdateRejected ==
  [][(/\ IsFrame("updatePosition")'
      /\ ~(WellFormed(last'.data.position)
           /\ WellFormed(last'.data.rotation)))
       => Poses' = Poses]_vars

C13_Witness ==
  /\ IsFrame("updatePosition")
  /\ WellFormed(last.data.position)
  /\ last.data.rotation = Undefined
  /\ MapHas(players, playerId[last.conn])
  /\ MapGet(players, playerId[last.conn]).position
       = Vec(Num(0), Num(100), Num(0))

\* C14: once updatePlayerPosition accepted position p and rotation r from a
\* registered session A, and no later updatePosition frame came from A, the
\* next tick sends every registered session B with an open transport a
\* snapshot whose entry for A's id holds p and r.
C14_PositionPropagates ==
  last.op = "tick" =>
    \A A, B \in Conns :
      (/\ Registered(A) /\ pose[A] # Undefined
       /\ Registered(B) /\ B \in last.eligible)
        => \A i \in FramesTo(B, "gameState") :
             \E j \in 1..Len(out[B][i].players) :
               /\ out[B][i].players[j].id = playerId[A]
               /\ out[B][i].players[j].position = pose[A].position
               /\ out[B][i].players[j].rotation = pose[A].rotation

\* C16: an accepted placeBomb frame (truthy planetId, valid position) sends
\* every registered session with an open transport a bombPlaced frame whose
\* countdown is the payload's countdown when the payload has one, and 10
\* when it has none.
C16_BombCountdown ==
  (/\ IsFrame("placeBomb")
   /\ last.data.planetId.t = "string" /\ last.data.planetId.s # ""
   /\ WellFormed(last.data.position))
    => \A r \in OpenSockets(players, readyState) :
         /\ FramesTo(r, "bombPlaced") # {}
         /\ \A i \in FramesTo(r, "bombPlaced") :
              out[r][i].countdown =
                IF last.data.countdown = Undefined THEN Num(10)
                ELSE last.data.countdown

\* C15: a connect that supplies no color gets the palette entry at
\* nextColorIndex in its init frame and moves nextColorIndex on by one
\* modulo the palette size: the colors handed out run through the palette
\* in order, nextColorIndex stays within 0..7, and the ninth color is the
\* first again.
C15_RoundRobinColors ==
  /\ nextColorIndex \in 0..(Len(playerColors) - 1)
  /\ nextColorIndex = Len(assigned) % Len(playerColors)
  /\ \A i \in 1..Len(assigned) :
       assigned[i] = playerColors[((i - 1) % Len(playerColors)) + 1]
  /\ Len(assigned) > Len(playerColors)
       => assigned[Len(playerColors) + 1] = assigned[1]

C15_Witness ==
  /\ Len(assigned) = Len(playerColors) + 1
  /\ last.op = "connect" /\ last.color = NoColor
  /\ out[last.conn][1].playerColor = playerColors[1]

\* C17: in a tick where send() throws for some session, every registered
\* session with an open transport is still sent the snapshot, and the
\* refresh still runs: no entry is left with a lastUpdate more than
\* 2 * SYNC_RATE before the tick.
C17_SnapshotFanOutIsolation ==
  (last.op = "tick" /\ last.failed # {}) =>
    /\ \A r \in last.eligible : FramesTo(r, "gameState") # {}
    /\ \A i \in 1..Len(players) :
         now - players[i].lastUpdate <= 2 * SYNC_RATE

C17_Witness ==
  /\ last.op = "tick"
  /\ \E f \in last.failed, r \in last.eligible :
       /\ r \notin last.failed
       /\ \E i, j \in 1..Len(players) :
            /\ players[i].socket = f /\ players[j].socket = r /\ i < j
       /\ FramesTo(r, "gameState") # {}
  /\ now > 0
  /\ \E i \in 1..Len(players) : players[i].lastUpdate = now

\* C18: the registry loses entries only in a close handler, an error
\* handler, or a tick whose sweep finds them timed out; a send that throws
\* takes no session out of the registry.
C18_NoEvictionBySendFailure ==
  [][Len(players') < Len(players)
       => \/ last'.op \in {"close", "error"}
          \/ /\ last'.op = "tick"
             /\ \A i \in 1..Len(players) :
                  players[i].id \notin Ids(players')
                    => now' - players[i].lastUpdate > timeout]_vars

\* C19: no ping timer fires for a connection whose session has left the
\* registry by close, error or timeout eviction.  (Stated for connections
\* whose id no other connection shares.)
Alone(c) ==
  \A d \in Conns \ {c} :
    readyState[d] # "CONNECTING" => playerId[d] # playerId[c]

C19_PingTimerLifetime ==
  \A c \in Conns :
    (last.op = "ping" /\ last.conn = c /\ Alone(c))
      => gone[c] \notin {"close", "error", "sweep"}

\* C20: a frame that does not parse, or whose handler throws (the JSON
\* literal null, a chat frame whose message is a number), removes no
\* session, closes no transport, changes no position, rotation, isAlienMode
\* or landedPlanetId, and sends nothing.
Dropped20(d) ==
  \/ "type" \notin DOMAIN d
  \/ d.type = "chat" /\ d.message.t = "number" /\ d.message # Num(0)

Kept ==
  [i \in 1..Len(players) |->
     [id |-> players[i].id, socket |-> players[i].socket,
      position |-> players[i].position, rotation |-> players[i].rotation,
      isAlienMode |-> players[i].isAlienMode,
      landedPlanetId |-> players[i].landedPlanetId]]

C20_MalformedFrameDropped ==
  [][(last'.op = "message" /\ Dropped20(last'.data))
       => /\ Kept' = Kept
          /\ readyState' = readyState
          /\ out' = NoOut]_vars

C20_Witness ==
  /\ last.op = "message"
  /\ last.data = [type |-> "chat", message |-> Num(5)]
  /\ MapHas(players, playerId[last.conn])
  /\ Cardinality(OpenSockets(players, readyState)) >= 2

\* C21: a frame that fails its handler's validation (an updatePosition with
\* a malformed position or rotation, a placeBomb without a truthy planetId
\* or with a malformed position, a planetDestroyed without a truthy
\* planetId, a chat whose message is missing, empty or longer than 200
\* characters, a type the router does not know) sends no frame to anyone
\* and changes nothing in the registry but the lastUpdate of the entry
\* under the sender's id.
Missing(v) == v \in {Undefined, Null, Str(""), Text(<<>>)}

Invalid21(d) ==
  CASE d.type = "updatePosition" ->
         ~(WellFormed(d.position) /\ WellFormed(d.rotation))
    [] d.type = "placeBomb" ->
         Missing(d.planetId) \/ ~WellFormed(d.position)
    [] d.type = "planetDestroyed" -> Missing(d.planetId)
    [] d.type = "chat" ->
         \/ Missing(d.message)
         \/ (d.message.t = "string" /\ Len(chars(d.message)) > MaxChatLen)
    [] OTHER -> d.type \notin {"alienMode", "pong"}

\* the registry with the lastUpdate of the entry under id left out
ButLastUpdate(P, id) ==
  [i \in 1..Len(P) |->
     IF P[i].id = id THEN [P[i] EXCEPT !.lastUpdate = 0] ELSE P[i]]

C21_SilentValidationFailure ==
  [][(/\ last'.op = "message"
      /\ "type" \in DOMAIN last'.data
      /\ Invalid21(last'.data))
       => /\ out' = NoOut
          /\ ButLastUpdate(players', playerId[last'.conn])
               = ButLastUpdate(players, playerId[last'.conn])
          /\ readyState' = readyState]_vars

C21_Witness ==
  /\ last.op = "message"
  /\ last.data = [type |-> "planetDestroyed", planetId |-> Str("")]
  /\ Cardinality(OpenSockets(players, readyState)) >= 2
  /\ MapHas(players, playerId[last.conn])
  /\ MapGet(players, playerId[last.conn]).lastUpdate = now
  /\ now > 0
  /\ out = NoOut

\* C22: an alienMode frame from a connection whose id is in the registry
\* sets that entry's isAlienMode to the payload's value and its
\* landedPlanetId to the payload's planetId if that is truthy and to null
\* if not, leaves the other entries alone, and sends every registered
\* session with an open transport, the sender included, one playerAlienMode
\* frame carrying the stored values; from a connection whose id is not in
\* the registry it changes nothing and sends nothing.
C22_AlienMode ==
  [][IsFrame("alienMode")' =>
       LET id == playerId[last'.conn]
           d == last'.data
       IN IF MapHas(players, id)
          THEN /\ MapHas(players', id)
               /\ MapGet(players', id).isAlienMode = d.isAlienMode
               /\ MapGet(players', id).landedPlanetId
                    = (IF Missing(d.planetId) THEN Null ELSE d.planetId)
               /\ \A i \in 1..Len(players) :
                    players[i].id # id => players'[i] = players[i]
               /\ \A r \in Conns :
                    out'[r] =
                      IF r \in OpenSockets(players, readyState)
                      THEN <<[type |-> "playerAlienMode", playerId |-> id,
                              isAlienMode
                                |-> MapGet(players', id).isAlienMode,
                              planetId
                                |-> MapGet(players', id).landedPlanetId]>>
                      ELSE <<>>
          ELSE players' = players /\ out' = NoOut]_vars

C22_Witness ==
  /\ IsFrame("alienMode")
  /\ last.data.planetId = Str("")
  /\ Cardinality(OpenSockets(players, readyState)) >= 2
  /\ last.conn \in OpenSockets(players, readyState)
  /\ MapGet(players, playerId[last.conn]).landedPlanetId = Null
  /\ MapGet(players, playerId[last.conn]).isAlienMode
  /\ FramesTo(last.conn, "playerAlienMode") # {}

\* C23: at the end of a tick, every entry still in the registry whose
\* lastUpdate is more than 2 * SYNC_RATE before the tick has it set to the
\* time of the tick, and every other entry keeps its lastUpdate; so, with
\* the timer firing every SYNC_RATE ms, the sweep evicts no session, however
\* long the session sends nothing.
C23_StationaryKeepalive ==
  [][last'.op = "tick" =>
       /\ last'.evicted = {}
       /\ \A i \in 1..Len(players') :
            LET old == MapGet(players, players'[i].id).lastUpdate
            IN players'[i].lastUpdate
                 = IF now' - old > 2 * SYNC_RATE THEN now' ELSE old]_vars

C23_Witness ==
  /\ last.op = "tick"
  /\ now > timeout + 2 * SYNC_RATE
  /\ \E c \in OpenSockets(players, readyState) :
       /\ MapGet(players, playerId[c]).socket = c
       /\ MapGet(players, playerId[c]).lastUpdate = now
       /\ FramesTo(c, "gameState") # {}

\* C24: the snapshot of a tick is built after the sweep: every gameState
\* frame of the tick has exactly one entry per session left in the registry
\* by the sweep, in registry order, holding that session's id, position,
\* rotation, isAlienMode and landedPlanetId and no other field; a session
\* the sweep evicted in the tick has no entry and is sent no gameState
\* frame.
SnapshotFields ==
  {"id", "position", "rotation", "isAlienMode", "landedPlanetId"}

C24_SnapshotContent ==
  last.op = "tick" =>
    /\ \A r \in Conns : \A i \in FramesTo(r, "gameState") :
         LET snap == out[r][i].players
         IN /\ Len(snap) = Len(players)
            /\ \A j \in 1..Len(snap) :
                 /\ DOMAIN snap[j] = SnapshotFields
                 /\ \A f \in SnapshotFields : snap[j][f] = players[j][f]
            /\ \A j, k \in 1..Len(snap) : snap[j].id = snap[k].id => j = k
            /\ \A c \in last.evicted :
                 \A j \in 1..Len(snap) : snap[j].id # playerId[c]
    /\ \A c \in last.evicted : FramesTo(c, "gameState") = {}

C24_Witness ==
  /\ last.op = "tick"
  /\ \E c \in last.evicted, r \in OpenSockets(players, readyState) :
       /\ readyState[c] = "OPEN"
       /\ HasFrame(r, PlayerLeftFrame(playerId[c]))
       /\ \E i \in FramesTo(r, "gameState") :
            /\ Len(out[r][i].players) = 1
            /\ out[r][i].players[1].id = playerId[r]

\* C25: a connect that supplies a color stores that color as it came on the
\* session and in the init frame and leaves nextColorIndex alone, so the
\* colors the server takes from the palette run through it in order however
\* many color-supplying connects come in between.
C25_SuppliedColorKeepsCounter ==
  [][(last'.op = "connect" /\ last'.color # NoColor) =>
       /\ nextColorIndex' = nextColorIndex
       /\ out'[last'.conn] # <<>>
       /\ out'[last'.conn][1].type = "init"
       /\ out'[last'.conn][1].playerColor = last'.color
       /\ ~crashed' =>
            MapGet(players', playerId'[last'.conn]).color = last'.color
       /\ \A i \in 1..Len(assigned') :
            assigned'[i] = playerColors[((i - 1) % Len(playerColors)) + 1]]_vars

C25_Witness ==
  /\ last.op = "connect" /\ last.color \in Colors
  /\ ~crashed
  /\ Len(assigned) = 2
  /\ nextColorIndex = 2
  /\ MapGet(players, playerId[last.conn]).color = last.color
  /\ out[last.conn][1].playerColor = last.color

\* C26: the registry entry a close or error handler deletes, if it deletes
\* one, has the handler's own connection as its socket: an entry that a
\* later connection registered under the same id stays, transport open, in
\* the registry.  (Stated for connections that requested a username.)
C26_CloseRemovesOwnSession ==
  [][(last'.op \in {"close", "error"}
      /\ playerId[last'.conn] \in Usernames)
       => Dropped(players, players') \subseteq {last'.conn}]_vars

\* C27: a frame of any type received on a connection whose id is not in
\* the registry at that moment (after the sweep evicted it, say, with its
\* transport still open) sends no frame to any session.
C27_OnlyRegisteredBroadcast ==
  (last.op = "message" /\ playerId[last.conn] \notin last.before)
    => out = NoOut

\* C28: every connect handler that put a session into the registry went on
\* to install the connection's message, close and error listeners, also
\* when its init send or a playerJoined send threw; and no entry stays in
\* the registry once its transport has closed.
C28_RegisteredSessionsReclaimable ==
  /\ last.op = "connect" => listeners[last.conn]
  /\ \A c \in Sockets(players) : readyState[c] # "CLOSED"

\* C29: the client never has more than one WebSocket that is connecting or
\* open (so the reconnect timer of the connection check and the retry timer
\* of the failure handler never both make a socket for one outage), and the
\* close and error events of a socket other than the current one neither
\* close the current socket nor clear gameState.multiplayer.socket or
\* enabled.
C29_SingleConnection ==
  [][/\ Cardinality(LiveSockets(multiplayer')) <= 1
     /\ (/\ did'.op = "close"
         /\ multiplayer.socket \notin {0, did'.socket})
          => /\ multiplayer'.socket = multiplayer.socket
             /\ multiplayer'.enabled = multiplayer.enabled
             /\ multiplayer'.readyState[multiplayer.socket]
                  = multiplayer.readyState[multiplayer.socket]]_vars

\* C30: connectionRetries never exceeds maxRetries; the handlers of one
\* socket count its failure once, whichever of timeout, error and close fire
\* for it; no more than maxRetries retries are scheduled between two opens;
\* and an open event leaves connectionRetries at 0 and retryDelay at 1000.
C30_RetryBound ==
  /\ multiplayer.connectionRetries <= maxRetries
  /\ \A s \in ClientSockets : counted[s] <= 1
  /\ scheduled <= maxRetries
  /\ did.op = "open" =>
       multiplayer.connectionRetries = 0 /\ multiplayer.retryDelay = 1000

====
